---- MODULE Spec2Model ----
(***************************************************************************)
(* State-machine model of the authentication core of src/src/index.tsx:    *)
(* the three tables of the migrations, the session middleware and the      *)
(* signup / login / logout / email-verification handlers.  One request is  *)
(* one process; one action is one storage statement together with the      *)
(* local code that runs up to the next awaited statement.                  *)
(***************************************************************************)
EXTENDS Integers, Sequences, FiniteSets, TLC

---------------------------------------------------------------------------
\* Bounds of the model.

\* Number of requests of one run (requests may overlap in time).
MaxRequests == 3

\* Number of times the clock advances in one run.
MaxTicks == 1

\* Random digits drawn by the code generator range over 0..MaxDigit.
MaxDigit == 1

\* Clock resolution: clock units per second (sub-second instants exist).
TicksPerSecond == 2

---------------------------------------------------------------------------
\* Program constants.

\* generateRandomString(4, ...): length of a verification code.
CodeLength == 4

\* new TimeSpan(15, "m"): lifetime of a verification code, in minutes.
CodeMinutes == 15

\* Session lifetime in days (the Lucia instance is built without
\* sessionExpiresIn, so the library's 30 days apply).
SessionDays == 30

CodeTTL == CodeMinutes * 60 * TicksPerSecond

SessionTTL == SessionDays * 24 * 60 * 60 * TicksPerSecond

\* Tables created by the migrations.
Schema == {"users", "sessions", "email_verification_codes"}

\* Table named by the insert/delete statements of generateEmailVerificationCode.
IssueTable == "email_verification_codes"

\* Table named by the delete ... returning statement of verifyVerificationCode.
VerifyTable == "email_verification_code"

---------------------------------------------------------------------------
\* Dates.

\* isWithinExpirationDate(date): Date.now() < date.getTime().
IsWithinExpirationDate(date, clock) == clock < date

\* createDate(timeSpan): new Date(Date.now() + timeSpan.milliseconds()).
CreateDate(span, clock) == clock + span

\* Date.prototype.toString() followed by new Date(string): the textual form
\* carries whole seconds only, the fraction of the second is dropped.
DateToStringAndBack(date) == date - (date % TicksPerSecond)

\* The sessions table keeps expires_at as an INTEGER number of seconds.
ToSeconds(date) == date \div TicksPerSecond

FromSeconds(secs) == secs * TicksPerSecond

---------------------------------------------------------------------------
\* Password hashing.

\* new TextEncoder().encode(password): UTF-8 bytes of a sequence of code points.
RECURSIVE Utf8Encode(_)
Utf8Encode(cps) ==
    IF cps = <<>> THEN <<>>
    ELSE LET cp == Head(cps)
             bytes == IF cp < 128 THEN <<cp>>
                      ELSE <<192 + (cp \div 64), 128 + (cp % 64)>>
         IN  bytes \o Utf8Encode(Tail(cps))

\* sha256(bytes): taken as an ideal (collision-free) digest, represented by
\* the bytes it was computed from.
Sha256(bytes) == bytes

\* bytesToHex(bytes): two hexadecimal digits (0..15) per byte.
RECURSIVE BytesToHex(_)
BytesToHex(bytes) ==
    IF bytes = <<>> THEN <<>>
    ELSE <<Head(bytes) \div 16, Head(bytes) % 16>> \o BytesToHex(Tail(bytes))

hashPassword(password) == BytesToHex(Sha256(Utf8Encode(password)))

---------------------------------------------------------------------------
\* Inputs.

\* z.string().email(): of the strings the model submits, the email addresses.
IsEmail(s) == s \in {"a@x.io", "b@x.io"}

\* z.string().min(1)
MinLength1(s) == Len(s) >= 1

\* alphabet("0-9"), cut to the digits the model draws.
Digits == 0..MaxDigit

\* generateRandomString(4, alphabet("0-9")): the strings the generator may
\* return; the model draws the ones made of one repeated digit.
RandomCodes == {[i \in 1..CodeLength |-> d] : d \in Digits}

\* Codes submitted to /email-verification: any generated code, or nothing.
SubmittedCodes == RandomCodes \cup {<<>>}

NoForm == [email |-> "", password |-> <<>>, code |-> <<>>]

\* The credentials submitted to /signup and /login.  Passwords are sequences
\* of code points: "p", "é" (two UTF-8 bytes) and the empty string; the last
\* two forms fail validation.
SignupForms ==
    {[email |-> "a@x.io", password |-> <<112>>, code |-> <<>>],
     [email |-> "a@x.io", password |-> <<233>>, code |-> <<>>],
     [email |-> "b@x.io", password |-> <<112>>, code |-> <<>>],
     [email |-> "not-an-email", password |-> <<112>>, code |-> <<>>],
     [email |-> "a@x.io", password |-> <<>>, code |-> <<>>]}

VerifyForms == {[email |-> "", password |-> <<>>, code |-> c] : c \in SubmittedCodes}

\* Every form the model submits.
Forms == SignupForms \cup VerifyForms \cup {NoForm}

Routes == {"home", "signup", "login", "logout", "verify"}

FormsOf(route) ==
    CASE route \in {"signup", "login"} -> SignupForms
      [] route = "verify" -> VerifyForms
      [] OTHER -> {NoForm}

---------------------------------------------------------------------------
\* Request context values.

NullUser == [id |-> 0, email |-> "", emailVerified |-> FALSE]

NullSession == [id |-> 0, fresh |-> FALSE]

\* lucia.createSessionCookie(id).serialize()
SessionCookie(sid) == [kind |-> "session", value |-> sid]

\* lucia.createBlankSessionCookie().serialize()
BlankCookie == [kind |-> "blank", value |-> 0]

\* JavaScript truthiness of the values the handlers test: a Promise object
\* is truthy whatever it settles to.
IsTruthy(v) == v \notin {"false", "null", "undefined"}

Requests == 1..MaxRequests

IdleRequest ==
    [pc |-> "idle", route |-> "home", cookie |-> 0, form |-> NoForm,
     user |-> NullUser, session |-> NullSession, renewTo |-> 0,
     code |-> <<>>, validCode |-> "undefined", promise |-> "none",
     target |-> 0, status |-> 0, body |-> "", cookies |-> <<>>,
     newSession |-> 0, preSessions |-> {}, matched |-> FALSE, late |-> FALSE,
     mail |-> "none"]

---------------------------------------------------------------------------
VARIABLES
    users,      \* table users: rows [id, email, hashed_password, email_verified]
    sessions,   \* table sessions: rows [id, user_id, expires_at]
    codes,      \* table email_verification_codes: rows [id, user_id, email, code, expires_at]
    now,        \* Date.now()
    ticks,      \* number of clock advances so far
    req,        \* the requests: position, inputs, context, response
    consumed    \* history: ids of the users for whom verifyVerificationCode returned true

vars == <<users, sessions, codes, now, ticks, req, consumed>>

Init ==
    /\ users = {}
    /\ sessions = {}
    /\ codes = {}
    /\ now = 0
    /\ ticks = 0
    /\ req = [r \in Requests |-> IdleRequest]
    /\ consumed = {}

---------------------------------------------------------------------------
\* Storage rows and library calls.

\* generateIdFromEntropySize(10) and Lucia's session id: a fresh random
\* identifier; request r makes at most one of each, so r stands for it.
FreshId(r) == r

UserRowsByEmail(email) == {u \in users : u.email = email}

UserRowsById(id) == {u \in users : u.id = id}

SessionRowsById(sid) == {s \in sessions : s.id = sid}

SessionRowsOfUser(userId) == {s \in sessions : s.user_id = userId}

CodeRowsOfUser(userId) == {c \in codes : c.user_id = userId}

\* Boolean(attributes.email_verified)
ToBoolean(n) == n # 0

\* getUserAttributes: the User object Lucia hands to the handlers.
UserObject(u) ==
    [id |-> u.id, email |-> u.email, emailVerified |-> ToBoolean(u.email_verified)]

\* lucia.createSession(userId, {}): a session row living SessionTTL from now.
NewSessionRow(sid, userId) ==
    [id |-> sid, user_id |-> userId,
     expires_at |-> ToSeconds(CreateDate(SessionTTL, now))]

---------------------------------------------------------------------------
\* Local code of the handlers.

Respond(rq, status, body) ==
    [rq EXCEPT !.pc = "done", !.status = status, !.body = body]

\* c.header("Set-Cookie", cookie, { append: true })
AppendSetCookie(rq, cookie) == [rq EXCEPT !.cookies = Append(@, cookie)]

\* zValidator of /signup and /login: email is an email, password is non-empty.
ValidCredentials(form) == IsEmail(form.email) /\ MinLength1(form.password)

\* zValidator of /email-verification: code is non-empty.
ValidCodeForm(form) == MinLength1(form.code)

\* const validCode = verifyVerificationCode(c.env.DB, user, code): the call
\* is not awaited, so the value is the Promise and its statement is in flight.
CallVerifyVerificationCode(rq) ==
    [rq EXCEPT !.validCode = "Promise", !.promise = "pending"]

\* The code rows the statement of verifyVerificationCode matches:
\* where user_id = ? and code = ? and email = ?
MatchingCodeRows(user, code) ==
    {c \in codes : c.user_id = user.id /\ c.code = code /\ c.email = user.email}

\* History, taken when the handler calls verifyVerificationCode: whether a
\* matching row that has not expired exists (matched), and whether a
\* matching row exists whose 15 minutes are over (late).
StampSubmission(rq) ==
    LET rows == MatchingCodeRows(rq.user, rq.form.code)
    IN  [rq EXCEPT
           !.matched = \E c \in rows : IsWithinExpirationDate(c.expires_at, now),
           !.late = \E c \in rows : now >= c.expires_at + TicksPerSecond]

\* /email-verification up to its first awaited statement.
VerifyEntry(rq) ==
    IF ~(rq.user.id # 0) THEN Respond(rq, 400, "Invalid user")
    ELSE LET called == CallVerifyVerificationCode(StampSubmission(rq))
         IN  IF ~IsTruthy(called.validCode) THEN Respond(called, 400, "")
             ELSE [called EXCEPT !.pc = "ev_invalidate"]

\* Variant: the blank cookie is also written before the session is invalidated.
LogoutEntry_BlankBeforeInvalidate(rq) ==
    IF rq.session.id # 0
    THEN [AppendSetCookie(rq, BlankCookie) EXCEPT !.pc = "lo_invalidate"]
    ELSE Respond(AppendSetCookie(rq, BlankCookie), 302, "/")

\* /logout up to its first awaited statement.
LogoutEntry(rq) ==
    IF rq.session.id # 0 THEN [rq EXCEPT !.pc = "lo_invalidate"]
    ELSE Respond(AppendSetCookie(rq, BlankCookie), 302, "/")

\* What runs after the session middleware calls next(): the route's
\* validator and the handler up to its first awaited statement.
RouteEntry(rq) ==
    CASE rq.route = "home" ->
            Respond(rq, 200, IF rq.user.id # 0 THEN "user" ELSE "guest")
      [] rq.route = "signup" ->
            IF ~ValidCredentials(rq.form) THEN Respond(rq, 400, "validation")
            ELSE [rq EXCEPT !.pc = "su_insert"]
      [] rq.route = "login" ->
            IF ~ValidCredentials(rq.form) THEN Respond(rq, 400, "validation")
            ELSE [rq EXCEPT !.pc = "li_select"]
      [] rq.route = "logout" -> LogoutEntry(rq)
      [] rq.route = "verify" ->
            IF ~ValidCodeForm(rq.form) THEN Respond(rq, 400, "validation")
            ELSE VerifyEntry(rq)


---------------------------------------------------------------------------
\* createSession, Set-Cookie for the new session, redirect to "/".
CreateSessionAndRedirect(r, userId) ==
    /\ sessions' = sessions \cup {NewSessionRow(FreshId(r), userId)}
    /\ req' = [req EXCEPT ![r] =
                 Respond(AppendSetCookie([@ EXCEPT !.newSession = FreshId(r)],
                                         SessionCookie(FreshId(r))),
                         302, "/")]

\* Session ids of the Set-Cookie headers the client has received so far.
ReceivedCookies ==
    UNION {{req[q].cookies[i].value : i \in DOMAIN req[q].cookies} :
              q \in {x \in Requests : req[x].pc = "done"}} \ {0}

---------------------------------------------------------------------------
\* A request arrives on one of the routes, with one of the cookies and one
\* of the forms.  Without a session cookie the middleware sets user and
\* session to null and calls next() at once.
Arrive(r, routes, cookies, forms) ==
    /\ req[r].pc = "idle"
    /\ IF r = 1 THEN TRUE ELSE req[r - 1].pc # "idle"
    /\ \E route \in routes, cookie \in cookies :
         \E form \in FormsOf(route) \cap forms :
            LET rq == [IdleRequest EXCEPT !.route = route, !.cookie = cookie,
                           !.form = form,
                           !.preSessions =
                               IF route = "verify" THEN {s.id : s \in sessions}
                               ELSE {}]
            IN  req' = [req EXCEPT ![r] =
                          IF cookie = 0 THEN RouteEntry(rq)
                          ELSE [rq EXCEPT !.pc = "mw_read"]]
    /\ UNCHANGED <<users, sessions, codes, now, ticks, consumed>>

\* Any request, with no cookie or with a session cookie the client was sent.
Start(r) == Arrive(r, Routes, {0} \cup ReceivedCookies, Forms)

\* A signup or a login from a client that holds no cookie.
StartCredentials(r) == Arrive(r, {"signup", "login"}, {0}, Forms)

\* A signup that passes the validator, from a client that holds no cookie.
StartSignup(r) ==
    Arrive(r, {"signup"}, {0}, {f \in SignupForms : ValidCredentials(f)})

\* The user rows the adapter's join finds for a session id.
UserRowsOfSession(sid) ==
    {u \in users : \E s \in SessionRowsById(sid) : u.id = s.user_id}

\* Variant: the expiry of the session is not looked at.
ValidateSession_NoExpiryCheck(sid) ==
    IF SessionRowsById(sid) = {} \/ UserRowsOfSession(sid) = {} THEN "none"
    ELSE "valid"

\* lucia.validateSession(sessionId), its decision on what the adapter read:
\* "none" (no session row, or no user row for it), "expired", "renew" (past
\* half of the session's life) or "valid".
ValidateSession(sid) ==
    IF SessionRowsById(sid) = {} \/ UserRowsOfSession(sid) = {} THEN "none"
    ELSE LET s == CHOOSE x \in SessionRowsById(sid) : TRUE
             expiresAt == FromSeconds(s.expires_at)
         IN  IF ~IsWithinExpirationDate(expiresAt, now) THEN "expired"
             ELSE IF ~IsWithinExpirationDate(expiresAt - (SessionTTL \div 2), now)
                  THEN "renew"
                  ELSE "valid"

\* Session middleware with a cookie: validateSession reads the session row
\* joined with its user, then the middleware sets the context and the
\* cookie, or validateSession goes on to its write.
MwValidateRead(r) ==
    /\ req[r].pc = "mw_read"
    /\ LET rq == req[r]
           outcome == ValidateSession(rq.cookie)
           s == CHOOSE x \in SessionRowsById(rq.cookie) : TRUE
           u == CHOOSE x \in UserRowsOfSession(rq.cookie) : TRUE
       IN  req' = [req EXCEPT ![r] =
             CASE outcome = "none" ->
                    RouteEntry(AppendSetCookie(rq, BlankCookie))
               [] outcome = "expired" -> [rq EXCEPT !.pc = "mw_delete"]
               [] outcome = "renew" ->
                    [rq EXCEPT !.pc = "mw_update",
                               !.user = UserObject(u),
                               !.session = [id |-> s.id, fresh |-> TRUE],
                               !.renewTo = CreateDate(SessionTTL, now)]
               [] outcome = "valid" ->
                    RouteEntry([rq EXCEPT !.user = UserObject(u),
                                          !.session = [id |-> s.id, fresh |-> FALSE]])]
    /\ UNCHANGED <<users, sessions, codes, now, ticks, consumed>>

\* validateSession on an expired session: the row is deleted, the result is
\* null, the middleware emits the blank cookie.
MwDeleteExpired(r) ==
    /\ req[r].pc = "mw_delete"
    /\ sessions' = sessions \ SessionRowsById(req[r].cookie)
    /\ req' = [req EXCEPT ![r] = RouteEntry(AppendSetCookie(@, BlankCookie))]
    /\ UNCHANGED <<users, codes, now, ticks, consumed>>

\* validateSession past half of the session's life: expires_at is moved
\* forward (an update of the row, if it is still there), the session is
\* fresh and the middleware emits its cookie.
MwExtend(r) ==
    /\ req[r].pc = "mw_update"
    /\ sessions' = {IF s.id = req[r].cookie
                    THEN [s EXCEPT !.expires_at = ToSeconds(req[r].renewTo)]
                    ELSE s : s \in sessions}
    /\ req' = [req EXCEPT ![r] =
                 RouteEntry(AppendSetCookie(@, SessionCookie(@.session.id)))]
    /\ UNCHANGED <<users, codes, now, ticks, consumed>>

---------------------------------------------------------------------------
\* POST /signup

\* Variant: INSERT OR IGNORE, a conflicting insert is skipped silently.
SignupInsertUser_OrIgnore(r) ==
    /\ req[r].pc = "su_insert"
    /\ LET rq == req[r]
           userId == FreshId(r)
           row == [id |-> userId, email |-> rq.form.email,
                   hashed_password |-> hashPassword(rq.form.password),
                   email_verified |-> 0]
       IN  /\ users' = IF UserRowsById(userId) # {} \/ UserRowsByEmail(rq.form.email) # {}
                       THEN users ELSE users \cup {row}
           /\ req' = [req EXCEPT ![r] = [@ EXCEPT !.pc = "su_gen_delete",
                                                  !.target = userId]]
    /\ UNCHANGED <<sessions, codes, now, ticks, consumed>>

\* Variant: the users table has no UNIQUE constraint on email.
SignupInsertUser_NoUniqueEmail(r) ==
    /\ req[r].pc = "su_insert"
    /\ LET rq == req[r]
           userId == FreshId(r)
           row == [id |-> userId, email |-> rq.form.email,
                   hashed_password |-> hashPassword(rq.form.password),
                   email_verified |-> 0]
       IN  IF UserRowsById(userId) # {}
           THEN /\ users' = users
                /\ req' = [req EXCEPT ![r] = Respond(@, 400, "Something went wrong")]
           ELSE /\ users' = users \cup {row}
                /\ req' = [req EXCEPT ![r] = [@ EXCEPT !.pc = "su_gen_delete",
                                                       !.target = userId]]
    /\ UNCHANGED <<sessions, codes, now, ticks, consumed>>

\* INSERT INTO USERS ... RETURNING *: fails on the primary key or on the
\* UNIQUE email; the catch block answers 400.
SignupInsertUser(r) ==
    /\ req[r].pc = "su_insert"
    /\ LET rq == req[r]
           userId == FreshId(r)
           row == [id |-> userId, email |-> rq.form.email,
                   hashed_password |-> hashPassword(rq.form.password),
                   email_verified |-> 0]
       IN  IF UserRowsById(userId) # {} \/ UserRowsByEmail(rq.form.email) # {}
           THEN /\ users' = users
                /\ req' = [req EXCEPT ![r] = Respond(@, 400, "Something went wrong")]
           ELSE /\ users' = users \cup {row}
                /\ req' = [req EXCEPT ![r] = [@ EXCEPT !.pc = "su_gen_delete",
                                                       !.target = userId]]
    /\ UNCHANGED <<sessions, codes, now, ticks, consumed>>

\* generateEmailVerificationCode, first statement:
\* delete from email_verification_codes where user_id = ?
GenDeleteCodes(r) ==
    /\ req[r].pc = "su_gen_delete"
    /\ IF IssueTable \in Schema
       THEN /\ codes' = codes \ CodeRowsOfUser(req[r].target)
            /\ req' = [req EXCEPT ![r] = [@ EXCEPT !.pc = "su_gen_insert"]]
       ELSE /\ codes' = codes
            /\ req' = [req EXCEPT ![r] = Respond(@, 400, "Something went wrong")]
    /\ UNCHANGED <<users, sessions, now, ticks, consumed>>

\* INTEGER PRIMARY KEY of a new row: one more than the largest rowid.
NextRowId ==
    IF codes = {} THEN 1
    ELSE 1 + (CHOOSE m \in {c.id : c \in codes} : \A c \in codes : c.id <= m)

\* Variant: the generator is asked for one character less.
NewCodeRow_ShortCode(userId, email, code) ==
    [id |-> NextRowId, user_id |-> userId, email |-> email,
     code |-> SubSeq(code, 1, CodeLength - 1),
     expires_at |-> DateToStringAndBack(CreateDate(CodeTTL, now))]

\* The row inserted by generateEmailVerificationCode.
NewCodeRow(userId, email, code) ==
    [id |-> NextRowId, user_id |-> userId, email |-> email, code |-> code,
     expires_at |-> DateToStringAndBack(CreateDate(CodeTTL, now))]

\* Variant: user_id is not UNIQUE and the insert statement is sent twice.
GenInsertCode_InsertedTwice(r) ==
    /\ req[r].pc = "su_gen_insert"
    /\ \E code \in RandomCodes :
         LET rq == req[r]
             row == NewCodeRow(rq.target, rq.form.email, code)
         IN  /\ codes' = codes \cup {row, [row EXCEPT !.id = @ + 1]}
             /\ req' = [req EXCEPT ![r] = [@ EXCEPT !.pc = "su_session",
                                                    !.code = code,
                                                    !.mail = "called"]]
    /\ UNCHANGED <<users, sessions, now, ticks, consumed>>

\* generateEmailVerificationCode, second statement: the random code is
\* drawn and inserted (user_id is UNIQUE); then the email is handed to
\* sendEmailOrLog without awaiting it.
GenInsertCode(r) ==
    /\ req[r].pc = "su_gen_insert"
    /\ \E code \in RandomCodes :
         LET rq == req[r]
         IN  IF CodeRowsOfUser(rq.target) # {}
             THEN /\ codes' = codes
                  /\ req' = [req EXCEPT ![r] = Respond(@, 400, "Something went wrong")]
             ELSE /\ codes' = codes \cup {NewCodeRow(rq.target, rq.form.email, code)}
                  /\ req' = [req EXCEPT ![r] = [@ EXCEPT !.pc = "su_session",
                                                         !.code = code,
                                                         !.mail = "called"]]
    /\ UNCHANGED <<users, sessions, now, ticks, consumed>>

SignupCreateSession(r) ==
    /\ req[r].pc = "su_session"
    /\ CreateSessionAndRedirect(r, req[r].target)
    /\ UNCHANGED <<users, codes, now, ticks, consumed>>

\* The statements the signup handler awaits inside its try block.
SignupStatements == {"su_insert", "su_gen_delete", "su_gen_insert", "su_session"}

\* Variant: the error of the INSERT is raised after the row was written.
SignupStorageError_AfterWrite(r) ==
    /\ req[r].pc \in SignupStatements
    /\ users' = IF req[r].pc = "su_insert" /\ UserRowsByEmail(req[r].form.email) = {}
                THEN users \cup {[id |-> FreshId(r), email |-> req[r].form.email,
                                  hashed_password |-> hashPassword(req[r].form.password),
                                  email_verified |-> 0]}
                ELSE users
    /\ req' = [req EXCEPT ![r] = Respond(@, 400, "Something went wrong")]
    /\ UNCHANGED <<sessions, codes, now, ticks, consumed>>

\* A statement of the signup handler fails in the storage engine (the
\* statement has no effect and its promise is rejected): the catch block
\* logs the error and answers 400.  Nothing undoes the earlier statements.
SignupStorageError(r) ==
    /\ req[r].pc \in SignupStatements
    /\ req' = [req EXCEPT ![r] = Respond(@, 400, "Something went wrong")]
    /\ UNCHANGED <<users, sessions, codes, now, ticks, consumed>>

\* What sendEmailOrLog comes to: without RESEND_API_KEY it logs the email;
\* with the key it sends, and logs the response or the error it caught.
MailOutcome(hasKey, sendThrows) ==
    IF ~hasKey THEN "logged"
    ELSE IF sendThrows THEN "error logged" ELSE "sent"

\* Variant: the handler awaits the send and the send's error is not caught
\* in sendEmailOrLog, so it reaches the catch block of the handler.
SendEmailOrLog_Uncaught(r) ==
    /\ req[r].mail = "called"
    /\ \E hasKey \in BOOLEAN, sendThrows \in BOOLEAN :
         LET outcome == MailOutcome(hasKey, sendThrows)
         IN  req' = [req EXCEPT ![r] =
                       IF outcome = "error logged" /\ @.pc = "su_session"
                       THEN Respond([@ EXCEPT !.mail = outcome], 400,
                                    "Something went wrong")
                       ELSE [@ EXCEPT !.mail = outcome]]
    /\ UNCHANGED <<users, sessions, codes, now, ticks, consumed>>

\* sendEmailOrLog(c.env, email, ...) runs to its end.  The handler does not
\* await it: it settles at any time after the call, before or after the
\* session is created and the response is sent.
SendEmailOrLog(r) ==
    /\ req[r].mail = "called"
    /\ \E hasKey \in BOOLEAN, sendThrows \in BOOLEAN :
         req' = [req EXCEPT ![r] =
                   [@ EXCEPT !.mail = MailOutcome(hasKey, sendThrows)]]
    /\ UNCHANGED <<users, sessions, codes, now, ticks, consumed>>

---------------------------------------------------------------------------
\* POST /login

\* Variant: the submitted password is compared without being hashed.
PasswordMismatch_Plaintext(password, stored) == password # stored

\* passwordHash !== user.hashed_password
PasswordMismatch(password, stored) == hashPassword(password) # stored

\* Variant: the session is created before the password is checked.
LoginSelectUser_SessionBeforeCheck(r) ==
    /\ req[r].pc = "li_select"
    /\ LET rq == req[r]
           urows == UserRowsByEmail(rq.form.email)
           u == CHOOSE x \in urows : TRUE
       IN  IF urows = {}
           THEN /\ req' = [req EXCEPT ![r] = Respond(rq, 400, "Invalid email")]
                /\ sessions' = sessions
           ELSE /\ sessions' = sessions \cup {NewSessionRow(FreshId(r), u.id)}
                /\ req' = [req EXCEPT ![r] =
                      IF PasswordMismatch(rq.form.password, u.hashed_password)
                      THEN Respond(rq, 400, "Invalid password")
                      ELSE Respond(AppendSetCookie([rq EXCEPT !.newSession = FreshId(r),
                                                              !.target = u.id],
                                                   SessionCookie(FreshId(r))),
                                   302, "/")]
    /\ UNCHANGED <<users, codes, now, ticks, consumed>>

\* SELECT * FROM users WHERE email = ?, then the two checks.
LoginSelectUser(r) ==
    /\ req[r].pc = "li_select"
    /\ LET rq == req[r]
           urows == UserRowsByEmail(rq.form.email)
       IN  req' = [req EXCEPT ![r] =
             IF urows = {} THEN Respond(rq, 400, "Invalid email")
             ELSE LET u == CHOOSE x \in urows : TRUE
                  IN  IF PasswordMismatch(rq.form.password, u.hashed_password)
                      THEN Respond(rq, 400, "Invalid password")
                      ELSE [rq EXCEPT !.pc = "li_session", !.target = u.id]]
    /\ UNCHANGED <<users, sessions, codes, now, ticks, consumed>>

LoginCreateSession(r) ==
    /\ req[r].pc = "li_session"
    /\ CreateSessionAndRedirect(r, req[r].target)
    /\ UNCHANGED <<users, codes, now, ticks, consumed>>

---------------------------------------------------------------------------
\* POST /logout

\* Variant: lucia.invalidateUserSessions(user.id) is called instead.
LogoutInvalidate_AllUserSessions(r) ==
    /\ req[r].pc = "lo_invalidate"
    /\ sessions' = sessions \ SessionRowsOfUser(req[r].user.id)
    /\ req' = [req EXCEPT ![r] = Respond(AppendSetCookie(@, BlankCookie), 302, "/")]
    /\ UNCHANGED <<users, codes, now, ticks, consumed>>

\* lucia.invalidateSession(session.id), then the blank cookie and the redirect.
LogoutInvalidate(r) ==
    /\ req[r].pc = "lo_invalidate"
    /\ sessions' = sessions \ SessionRowsById(req[r].session.id)
    /\ req' = [req EXCEPT ![r] = Respond(AppendSetCookie(@, BlankCookie), 302, "/")]
    /\ UNCHANGED <<users, codes, now, ticks, consumed>>

---------------------------------------------------------------------------
\* POST /email-verification

\* What the Promise of verifyVerificationCode settles to, given the rows
\* its delete ... returning statement returned.
VerifyResult(rows) ==
    IF rows = {} THEN "false"
    ELSE LET databaseCode == CHOOSE c \in rows : TRUE
         IN  IF ~IsWithinExpirationDate(databaseCode.expires_at, now)
             THEN "false" ELSE "true"

\* The statement of verifyVerificationCode runs, at any time after the call.
\* A statement on a table that the schema does not have fails, the Promise
\* is rejected and nobody observes it.
VerifySettle(r) ==
    /\ req[r].promise = "pending"
    /\ LET rq == req[r]
           rows == MatchingCodeRows(rq.user, rq.form.code)
       IN  IF VerifyTable \in Schema
           THEN /\ codes' = codes \ rows
                /\ req' = [req EXCEPT ![r] = [@ EXCEPT !.promise = VerifyResult(rows)]]
                /\ consumed' = IF VerifyResult(rows) = "true"
                               THEN consumed \cup {rq.user.id} ELSE consumed
           ELSE /\ codes' = codes
                /\ req' = [req EXCEPT ![r] = [@ EXCEPT !.promise = "rejected"]]
                /\ consumed' = consumed
    /\ UNCHANGED <<users, sessions, now, ticks>>

\* Variant: the first statement of the handler is the UPDATE of the flag.
VerifyInvalidateSessions_FlagFirst(r) ==
    /\ req[r].pc = "ev_invalidate"
    /\ users' = {IF u.id = req[r].user.id THEN [u EXCEPT !.email_verified = 1]
                 ELSE u : u \in users}
    /\ req' = [req EXCEPT ![r] = [@ EXCEPT !.pc = "ev_update"]]
    /\ UNCHANGED <<sessions, codes, now, ticks, consumed>>

\* Variant: only the request's own session is invalidated.
VerifyInvalidateSessions_CurrentOnly(r) ==
    /\ req[r].pc = "ev_invalidate"
    /\ sessions' = sessions \ SessionRowsById(req[r].session.id)
    /\ req' = [req EXCEPT ![r] = [@ EXCEPT !.pc = "ev_update"]]
    /\ UNCHANGED <<users, codes, now, ticks, consumed>>

\* lucia.invalidateUserSessions(user.id)
VerifyInvalidateSessions(r) ==
    /\ req[r].pc = "ev_invalidate"
    /\ sessions' = sessions \ SessionRowsOfUser(req[r].user.id)
    /\ req' = [req EXCEPT ![r] = [@ EXCEPT !.pc = "ev_update"]]
    /\ UNCHANGED <<users, codes, now, ticks, consumed>>

\* Variant: the UPDATE has no WHERE clause.
VerifySetVerified_NoWhere(r) ==
    /\ req[r].pc = "ev_update"
    /\ users' = {[u EXCEPT !.email_verified = 1] : u \in users}
    /\ req' = [req EXCEPT ![r] = [@ EXCEPT !.pc = "ev_session"]]
    /\ UNCHANGED <<sessions, codes, now, ticks, consumed>>

\* UPDATE users SET email_verified = true WHERE id = ?
VerifySetVerified(r) ==
    /\ req[r].pc = "ev_update"
    /\ users' = {IF u.id = req[r].user.id THEN [u EXCEPT !.email_verified = 1]
                 ELSE u : u \in users}
    /\ req' = [req EXCEPT ![r] = [@ EXCEPT !.pc = "ev_session"]]
    /\ UNCHANGED <<sessions, codes, now, ticks, consumed>>

VerifyCreateSession(r) ==
    /\ req[r].pc = "ev_session"
    /\ CreateSessionAndRedirect(r, req[r].user.id)
    /\ UNCHANGED <<users, codes, now, ticks, consumed>>

---------------------------------------------------------------------------
\* Time passes: an instant, the life of a code, half the life of a session or
\* the whole of it.
TickSteps == {1, CodeTTL, SessionTTL \div 2, SessionTTL}

Tick ==
    /\ ticks < MaxTicks
    /\ \E d \in TickSteps : now' = now + d
    /\ ticks' = ticks + 1
    /\ UNCHANGED <<users, sessions, codes, req, consumed>>

Next ==
    \/ Tick
    \/ \E r \in Requests :
         \/ Start(r)
         \/ MwValidateRead(r)
         \/ MwDeleteExpired(r)
         \/ MwExtend(r)
         \/ SignupInsertUser(r)
         \/ GenDeleteCodes(r)
         \/ GenInsertCode(r)
         \/ SignupCreateSession(r)
         \/ LoginSelectUser(r)
         \/ LoginCreateSession(r)
         \/ LogoutInvalidate(r)
         \/ VerifySettle(r)
         \/ VerifyInvalidateSessions(r)
         \/ VerifySetVerified(r)
         \/ VerifyCreateSession(r)

Spec == Init /\ [][Next]_vars

\* The credential flows alone: signups and logins, at one instant.
NextCredentials ==
    \E r \in Requests :
        \/ StartCredentials(r)
        \/ SignupInsertUser(r)
        \/ GenDeleteCodes(r)
        \/ GenInsertCode(r)
        \/ SignupCreateSession(r)
        \/ LoginSelectUser(r)
        \/ LoginCreateSession(r)

SpecCredentials == Init /\ [][NextCredentials]_vars

\* Signups together with the email sends they leave in flight.  (In Spec and
\* SpecCredentials a send stays in flight: nothing reads its outcome.)
NextNotifier ==
    \E r \in Requests :
        \/ StartSignup(r)
        \/ SignupInsertUser(r)
        \/ GenDeleteCodes(r)
        \/ GenInsertCode(r)
        \/ SendEmailOrLog(r)
        \/ SignupCreateSession(r)

SpecNotifier == Init /\ [][NextNotifier]_vars

\* Signups against a storage engine whose statements may fail.  (In the
\* other specifications a statement fails only on a constraint.)
NextStorageFailure ==
    \E r \in Requests :
        \/ StartSignup(r)
        \/ SignupInsertUser(r)
        \/ GenDeleteCodes(r)
        \/ GenInsertCode(r)
        \/ SignupCreateSession(r)
        \/ SignupStorageError(r)

SpecStorageFailure == Init /\ [][NextStorageFailure]_vars

---------------------------------------------------------------------------
\* Vocabulary of the properties.

VerifyRequests == {r \in Requests : req[r].route = "verify" /\ req[r].pc # "idle"}

SignupRequests == {r \in Requests : req[r].route = "signup" /\ req[r].pc # "idle"}

LoginRequests == {r \in Requests : req[r].route = "login" /\ req[r].pc # "idle"}

\* The request has reached the handler's effects on users or sessions: it
\* has invalidated the user's sessions, or answered with the redirect.
VerifyTookEffect(r) ==
    \/ req[r].pc \in {"ev_update", "ev_session"}
    \/ req[r].pc = "done" /\ req[r].status = 302

\* The request was answered 400 and has touched neither users nor sessions.
VerifyRejected(r) ==
    req[r].pc = "done" /\ req[r].status = 400 /\ req[r].newSession = 0

\* The handler has got past the point where it decides on the code.
VerifyDecided(r) == req[r].pc \in {"ev_update", "ev_session", "done"}

---------------------------------------------------------------------------
\* C1: a user's email_verified flag is true only if an email-verification
\* request for that user consumed a matching, unexpired verification-code
\* row before (verifyVerificationCode returned true for that user).
C1_VerifiedOnlyAfterConsumption ==
    \A u \in users : ToBoolean(u.email_verified) => u.id \in consumed

\* C2: an email-verification request with no authenticated user, or whose
\* submitted code is missing, mismatched or expired, is rejected and has no
\* further effect: it never invalidates the user's sessions, never sets the
\* flag and never creates a session.
C2_RejectedHasNoEffect ==
    \A r \in VerifyRequests :
        (req[r].user.id = 0 \/ ~ValidCodeForm(req[r].form) \/ ~req[r].matched)
            => /\ ~VerifyTookEffect(r)
               /\ VerifyDecided(r) => VerifyRejected(r)

---------------------------------------------------------------------------
\* What one step of a signup request must do.
FourDigits(code) == Len(code) = 4 /\ \A i \in 1..Len(code) : code[i] \in 0..9

C3_SignupStep(r) ==
    LET rq == req[r]
        e == rq.form.email
        uid == FreshId(r)
    IN  /\ (rq.pc = "su_insert" /\ req'[r].pc # "su_insert" /\ UserRowsByEmail(e) = {})
              => /\ req'[r].pc # "done"
                 /\ \E u \in users' :
                       /\ u \notin users
                       /\ users' = users \cup {u}
                       /\ u.id = uid /\ u.email = e
                       /\ ~ToBoolean(u.email_verified)
        /\ (rq.pc \in {"su_gen_delete", "su_gen_insert"} /\ req'[r].pc # rq.pc)
              => req'[r].pc # "done"
        /\ (rq.pc = "su_session" /\ req'[r].pc # "su_session")
              => /\ req'[r].pc = "done" /\ req'[r].status = 302
                 /\ \E s \in sessions' :
                       /\ s \notin sessions
                       /\ sessions' = sessions \cup {s}
                       /\ s.user_id = uid
                       /\ req'[r].cookies[Len(req'[r].cookies)] = SessionCookie(s.id)
                 /\ {u.id : u \in {x \in users' : x.email = e}} = {uid}
                 /\ Cardinality({u \in users' : u.email = e}) = 1
                 /\ Cardinality({c \in codes' : c.user_id = uid}) = 1
                 /\ \A c \in codes' : c.user_id = uid => FourDigits(c.code) /\ c.email = e

\* C3: a signup with a valid form whose email is not yet used succeeds: it
\* adds exactly one user row, with email_verified false, does not fail
\* afterwards, and when it answers (302) it has added exactly one session
\* row, owned by that user, and the user has exactly one verification-code
\* row, holding a code of 4 decimal digits.
C3_SignupCreatesUserSessionCode ==
    [][\A r \in Requests : req[r].route = "signup" => C3_SignupStep(r)]_vars

\* A signup has succeeded and its user, session and code rows are there.
C3_Witness ==
    \E r \in SignupRequests :
        /\ req[r].pc = "done" /\ req[r].status = 302
        /\ \E u \in UserRowsById(FreshId(r)) : ~ToBoolean(u.email_verified)
        /\ SessionRowsById(req[r].newSession) # {}
        /\ CodeRowsOfUser(FreshId(r)) # {}

---------------------------------------------------------------------------
\* The signups that submitted an email, and what a failed one leaves behind.
SignupsOf(email) ==
    {r \in SignupRequests : ValidCredentials(req[r].form) /\ req[r].form.email = email}

SignupCreatedNothing(r) ==
    /\ req[r].newSession = 0
    /\ UserRowsById(FreshId(r)) = {}
    /\ CodeRowsOfUser(FreshId(r)) = {}
    /\ SessionRowsOfUser(FreshId(r)) = {}
    /\ \A i \in DOMAIN req[r].cookies : req[r].cookies[i].kind # "session"
          \/ req[r].cookies[i].value = req[r].cookie

\* C4: at most one user row exists per email; of the signups with the same
\* email at most one succeeds, and every other one fails with 400 without
\* creating a user, a code or a session, while one of them has the user row.
C4_OneUserPerEmail ==
    /\ \A u1, u2 \in users : u1.email = u2.email => u1 = u2
    /\ \A e \in {req[r].form.email : r \in SignupRequests} :
          LET all == SignupsOf(e)
              answered == {r \in all : req[r].pc = "done"}
              succeeded == {r \in answered : req[r].status = 302}
          IN  /\ Cardinality(succeeded) <= 1
              /\ \A r \in answered \ succeeded :
                    /\ req[r].status = 400
                    /\ SignupCreatedNothing(r)
                    /\ \E r2 \in all \ {r} : UserRowsById(FreshId(r2)) # {}
              /\ (all # {} /\ answered = all) => Cardinality(succeeded) = 1

\* Two overlapping signups with the same email have both been answered: the
\* one that arrived second got the user row, the first one got the 400.
C4_Witness ==
    \E r1, r2 \in SignupRequests :
        /\ r1 < r2
        /\ req[r1].form.email = req[r2].form.email
        /\ req[r1].pc = "done" /\ req[r1].status = 400
        /\ ValidCredentials(req[r1].form)
        /\ req[r2].pc = "done" /\ req[r2].status = 302

---------------------------------------------------------------------------
\* C5: code consumption is single-use.  After an email-verification request
\* that submitted the user's unexpired code has succeeded, the code row is
\* gone, and a later request of that user (one that carries the session
\* issued by the first) submitting the same code again fails.
C5_CodeIsSingleUse ==
    \A r1 \in VerifyRequests :
        (req[r1].pc = "done" /\ req[r1].status = 302 /\ req[r1].matched)
        => /\ MatchingCodeRows(req[r1].user, req[r1].form.code) = {}
           /\ \A r2 \in VerifyRequests :
                 (/\ req[r2].cookie = req[r1].newSession
                  /\ req[r2].form.code = req[r1].form.code
                  /\ VerifyDecided(r2))
                 => VerifyRejected(r2)

\* C6: two concurrent email-verification requests of one user with the same
\* code (both authenticated by the same session, which either of them
\* invalidates) produce at most one success.
C6_AtMostOneConcurrentSuccess ==
    \A r1, r2 \in VerifyRequests :
        (/\ r1 # r2
         /\ req[r1].cookie = req[r2].cookie
         /\ req[r1].user.id # 0 /\ req[r2].user.id = req[r1].user.id
         /\ req[r1].form.code = req[r2].form.code
         /\ req[r1].pc = "done" /\ req[r2].pc = "done")
        => ~(req[r1].status = 302 /\ req[r2].status = 302)

\* C7: a code submitted after its expiry instant (issuance + 15 minutes)
\* fails verification even when user id, email and code all match, and
\* consumption returns true only for a matching row that had not expired.
C7_ExpiredCodeFails ==
    \A r \in VerifyRequests :
        /\ req[r].late => /\ ~VerifyTookEffect(r)
                          /\ VerifyDecided(r) => VerifyRejected(r)
        /\ req[r].promise = "true" => ~req[r].late

---------------------------------------------------------------------------
\* A session id validates if validateSession attaches its session and user.
Validates(sid) == ValidateSession(sid) \in {"valid", "renew"}

C8_After(r) ==
    (req[r].route = "verify" /\ req[r].pc = "done" /\ req[r].status = 302)
    => \A sid \in req[r].preSessions :
          (\E s \in SessionRowsById(sid) : s.user_id = req[r].user.id)
             => ~Validates(sid)

C8_NewSessionValidates(r) ==
    /\ Validates(req[r].newSession)
    /\ \E s \in SessionRowsById(req[r].newSession) : s.user_id = req[r].user.id

\* C8: once an email-verification request has succeeded, no session of that
\* user that existed when the request arrived validates, at that moment or
\* later; and the session the request issued validates when it is issued.
\* Logins of the same user may run in between.
C8_VerificationReplacesSessions ==
    [][\A r \in Requests :
          /\ C8_After(r)'
          /\ (req[r].pc = "ev_session" /\ req'[r].pc # "ev_session")
                => /\ req'[r].pc = "done" /\ req'[r].status = 302
                   /\ req'[r].newSession \notin req[r].preSessions
                   /\ C8_NewSessionValidates(r)']_vars

\* A verification has succeeded while a login of the same user, which had
\* arrived before it, created its session after the invalidation: the old
\* session is gone, the new one and the login's validate.
C8_Witness ==
    \E r \in VerifyRequests, q \in LoginRequests :
        /\ req[r].pc = "done" /\ req[r].status = 302
        /\ q < r
        /\ req[q].pc = "done" /\ req[q].newSession # 0
        /\ req[q].target = req[r].user.id
        /\ req[q].newSession \notin req[r].preSessions
        /\ req[r].cookie \in req[r].preSessions
        /\ ~Validates(req[r].cookie)
        /\ Validates(req[r].newSession)
        /\ Validates(req[q].newSession)

---------------------------------------------------------------------------
\* What one step of a login request must do when it fails.
C9_LoginStep(r) ==
    LET rq == req[r]
        urows == UserRowsByEmail(rq.form.email)
    IN  /\ (rq.pc = "li_select" /\ req'[r].pc # "li_select" /\ urows = {})
              => /\ req'[r].pc = "done" /\ req'[r].status = 400
                 /\ req'[r].body = "Invalid email"
                 /\ sessions' = sessions
        /\ (/\ rq.pc = "li_select" /\ req'[r].pc # "li_select"
            /\ \E u \in urows : hashPassword(rq.form.password) # u.hashed_password)
              => /\ req'[r].pc = "done" /\ req'[r].status = 400
                 /\ req'[r].body = "Invalid password"
                 /\ sessions' = sessions
        /\ (req'[r].pc = "done" /\ req'[r].status = 400)
              => /\ req'[r].newSession = 0
                 /\ SessionRowsById(FreshId(r))' = {}
                 /\ \A i \in DOMAIN req'[r].cookies :
                       req'[r].cookies[i].kind = "session"
                          => req'[r].cookies[i].value = rq.cookie

\* C9: a failed login creates no session.  With an unregistered email the
\* handler answers 400 "Invalid email"; with a registered email and a
\* password whose hash differs from the stored digest it answers 400
\* "Invalid password"; in both cases the session rows are unchanged.
C9_FailedLoginCreatesNoSession ==
    [][\A r \in Requests : req'[r].route = "login" => C9_LoginStep(r)]_vars

\* Both failures have happened: one login was refused for its email, another
\* for its password.
C9_Witness ==
    \E r1, r2 \in LoginRequests :
        /\ req[r1].pc = "done" /\ req[r1].status = 400
        /\ req[r1].body = "Invalid email"
        /\ req[r2].pc = "done" /\ req[r2].status = 400
        /\ req[r2].body = "Invalid password"

---------------------------------------------------------------------------
\* What one step of a login request must do after a successful signup.
C10_LoginStep(r) ==
    LET rq == req[r]
    IN  /\ (rq.pc = "li_select" /\ req'[r].pc # "li_select")
              => /\ \A s \in SignupRequests :
                       (/\ req[s].pc = "done" /\ req[s].status = 302
                        /\ req[s].form.email = rq.form.email)
                       => IF rq.form.password = req[s].form.password
                          THEN /\ req'[r].pc = "li_session"
                               /\ req'[r].target = FreshId(s)
                          ELSE /\ req'[r].pc = "done" /\ req'[r].status = 400
                               /\ req'[r].body = "Invalid password"
                 /\ \A u \in UserRowsByEmail(rq.form.email) :
                       (req'[r].pc = "li_session")
                          <=> (hashPassword(rq.form.password) = u.hashed_password)
        /\ (rq.pc = "li_session" /\ req'[r].pc # "li_session")
              => /\ req'[r].pc = "done" /\ req'[r].status = 302
                 /\ \E s \in sessions' :
                       /\ s \notin sessions
                       /\ sessions' = sessions \cup {s}
                       /\ s.user_id = rq.target
                       /\ req'[r].newSession = s.id
                       /\ req'[r].cookies[Len(req'[r].cookies)] = SessionCookie(s.id)

\* C10: credential round trip.  After signup(e, p) has succeeded, a login
\* with e and p passes the password check and creates exactly one session,
\* owned by that user; a login with e and another password fails; the check
\* passes exactly when the hash of the submitted password equals the stored
\* digest.
C10_CredentialRoundTrip ==
    [][\A r \in Requests : req[r].route = "login" => C10_LoginStep(r)]_vars

\* After a successful signup, a login with the same credentials has
\* succeeded and a login with the other password has failed.
C10_Witness ==
    \E s \in SignupRequests, r1, r2 \in LoginRequests :
        /\ req[s].pc = "done" /\ req[s].status = 302
        /\ req[r1].form = req[s].form
        /\ req[r1].pc = "done" /\ req[r1].status = 302
        /\ SessionRowsOfUser(FreshId(s)) \cap SessionRowsById(req[r1].newSession) # {}
        /\ req[r2].form.email = req[s].form.email
        /\ req[r2].form.password # req[s].form.password
        /\ req[r2].pc = "done" /\ req[r2].status = 400

---------------------------------------------------------------------------
\* Positions of a request inside the session middleware, and inside a route
\* handler that has more statements to run.
MiddlewarePcs == {"idle", "mw_read", "mw_delete", "mw_update"}

HandlerPcs ==
    {"su_insert", "su_gen_delete", "su_gen_insert", "su_session", "li_select",
     "li_session", "lo_invalidate", "ev_invalidate", "ev_update", "ev_session"}

\* C11: at most one Set-Cookie header is emitted per request, whatever the
\* route, the cookie and the validation outcome: the middleware and the
\* route handler together append no more than one.
C11_AtMostOneSetCookie ==
    \A r \in Requests : Len(req[r].cookies) <= 1

\* C11, amended: the middleware appends at most one Set-Cookie header (none
\* without a session cookie in the request) and the route handler appends
\* at most one, when it answers; a response carries at most two, the first
\* of which is then the middleware's (blank, or the request's own session).
C11_AtMostOnePerStage ==
    \A r \in Requests :
        LET rq == req[r]
            n == Len(rq.cookies)
        IN  /\ n <= 2
            /\ rq.pc \in MiddlewarePcs => n = 0
            /\ rq.pc \in HandlerPcs => n <= 1
            /\ rq.cookie = 0 => n <= 1
            /\ (n = 2 \/ (n = 1 /\ rq.pc \in HandlerPcs))
                  => rq.cookies[1] \in {BlankCookie, SessionCookie(rq.cookie)}
            /\ (n >= 1 /\ rq.pc \in HandlerPcs) => rq.cookie # 0

\* A login that carried a stale session cookie was answered with two
\* Set-Cookie headers: the middleware's blank one, then the new session's.
C11_Witness ==
    \E r \in LoginRequests :
        /\ req[r].pc = "done" /\ req[r].status = 302
        /\ Len(req[r].cookies) = 2
        /\ req[r].cookies[1] = BlankCookie
        /\ req[r].cookies[2] = SessionCookie(req[r].newSession)

---------------------------------------------------------------------------
\* C12: at most one verification-code row exists per user.  Issuing a code
\* deletes the user's code rows before it inserts the new one: between the
\* two statements the user has no code row, and once the code is issued the
\* user's only code row is the one holding the code just drawn.
C12_OneCodePerUser ==
    /\ \A c1, c2 \in codes : c1.user_id = c2.user_id => c1 = c2
    /\ \A r \in SignupRequests :
          /\ req[r].pc = "su_gen_insert" => CodeRowsOfUser(req[r].target) = {}
          /\ (req[r].pc = "su_session" \/ (req[r].pc = "done" /\ req[r].status = 302))
                => /\ Cardinality(CodeRowsOfUser(req[r].target)) = 1
                   /\ \A c \in CodeRowsOfUser(req[r].target) :
                         c.code = req[r].code /\ c.email = req[r].form.email

\* Two users have signed up and each of them has exactly one code row.
C12_Witness ==
    \E r1, r2 \in SignupRequests :
        /\ r1 # r2
        /\ req[r1].pc = "done" /\ req[r1].status = 302
        /\ req[r2].pc = "done" /\ req[r2].status = 302
        /\ Cardinality(CodeRowsOfUser(req[r1].target)) = 1
        /\ Cardinality(CodeRowsOfUser(req[r2].target)) = 1
        /\ Cardinality(codes) = 2

---------------------------------------------------------------------------
LogoutRequests == {r \in Requests : req[r].route = "logout" /\ req[r].pc # "idle"}

\* The request has taken a step.
Stepped(r) == req'[r] # req[r]

\* What a logout request looks like once it is answered.
C13_Answered(r) ==
    (req[r].route = "logout" /\ req[r].pc = "done")
    => /\ req[r].status = 302
       /\ Len(req[r].cookies) >= 1
       /\ req[r].cookies[Len(req[r].cookies)] = BlankCookie
       /\ req[r].session.id # 0
             => SessionRowsById(req[r].session.id) = {} /\ ~Validates(req[r].session.id)

C13_LogoutStep(r) ==
    LET rq == req[r]
    IN  /\ users' = users /\ codes' = codes
        /\ \A s \in sessions : s.id # req'[r].cookie => s \in sessions'
        /\ \A s \in sessions' : s.id # req'[r].cookie => s \in sessions
        /\ (rq.pc = "lo_invalidate")
              => /\ rq.session.id # 0
                 /\ sessions' = sessions \ SessionRowsById(rq.session.id)
                 /\ req'[r].pc = "done"
        /\ (rq.pc # "done" /\ req'[r].pc = "done" /\ rq.pc # "lo_invalidate")
              => req'[r].session.id = 0 /\ sessions' \subseteq sessions

\* C13: logout invalidates the request's current session when one is
\* present, and that session id does not validate from then on; it answers
\* with the blank session cookie also when no session is present; the steps
\* of a logout request change no user row, no code row and no session row
\* other than the one its cookie names.
C13_LogoutInvalidatesCurrentSession ==
    [][/\ \A r \in Requests : C13_Answered(r)'
       /\ \A r \in Requests :
             (req'[r].route = "logout" /\ Stepped(r)) => C13_LogoutStep(r)]_vars

\* A user with two sessions has logged out of one of them: that one is gone
\* and the request was answered with the blank cookie, the other session
\* still validates.
C13_Witness ==
    \E r \in LogoutRequests :
        /\ req[r].pc = "done" /\ req[r].session.id # 0
        /\ SessionRowsById(req[r].session.id) = {}
        /\ req[r].cookies = <<BlankCookie>>
        /\ \E s \in SessionRowsOfUser(req[r].user.id) : Validates(s.id)

---------------------------------------------------------------------------
\* The rows and the response of a signup that succeeded.
SignupOutcomeInPlace(r) ==
    /\ req[r].pc = "done" /\ req[r].status = 302
    /\ \E u \in UserRowsById(req[r].target) : u.email = req[r].form.email
    /\ Cardinality(CodeRowsOfUser(req[r].target)) = 1
    /\ \E s \in SessionRowsById(req[r].newSession) : s.user_id = req[r].target
    /\ req[r].cookies = <<SessionCookie(req[r].newSession)>>

\* A signup whose handler has called the notifier.
C14_AfterCall(r) ==
    (req[r].route = "signup" /\ req[r].mail # "none")
    => /\ UserRowsById(req[r].target) # {}
       /\ CodeRowsOfUser(req[r].target) # {}
       /\ req[r].pc \in {"su_session", "done"}
       /\ req[r].pc = "done" => SignupOutcomeInPlace(r)

\* C14: the outcome of the email send never changes the outcome of signup.
\* Once the handler has called the notifier, the signup keeps its user row
\* and its code row and is not answered with a failure, whatever the send
\* comes to (logged without transport, sent, or an error caught and
\* logged) and whenever it settles; when it is answered, user row, code row
\* and session row are in place and the response carries the session
\* cookie; the settling of the send changes no row and no response.
C14_SendNeverChangesSignup ==
    [][\A r \in Requests :
          /\ C14_AfterCall(r)'
          /\ (req[r].mail = "called" /\ req'[r].mail # "called")
                => /\ req' = [req EXCEPT ![r].mail = req'[r].mail]
                   /\ <<users, sessions, codes>>' = <<users, sessions, codes>>]_vars

\* One signup was answered after its send had failed, another before its
\* send was logged without transport: both succeeded, their rows are there.
C14_Witness ==
    \E r1, r2 \in SignupRequests :
        /\ req[r1].mail = "error logged" /\ SignupOutcomeInPlace(r1)
        /\ req[r2].mail = "logged" /\ SignupOutcomeInPlace(r2)

---------------------------------------------------------------------------
\* The session row and the user row that make a session id valid now.
ValidPairs(sid) ==
    {<<s, u>> \in sessions \X users :
        /\ s.id = sid
        /\ IsWithinExpirationDate(FromSeconds(s.expires_at), now)
        /\ u.id = s.user_id}

\* What a step of the middleware must do for a request with a cookie.
C15_MiddlewareStep(r) ==
    LET rq == req[r]
        nx == req'[r]
        attached == nx.session.id # 0
        leaves == nx.pc \notin MiddlewarePcs
    IN  /\ rq.pc = "mw_read"
              => /\ attached <=> ValidPairs(rq.cookie) # {}
                 /\ attached <=> nx.user.id # 0
                 /\ attached => \E p \in ValidPairs(rq.cookie) :
                                   /\ nx.session.id = p[1].id
                                   /\ nx.user = UserObject(p[2])
                 /\ ~attached => nx.user = NullUser /\ nx.session = NullSession
                 /\ (attached /\ leaves) => ~nx.session.fresh /\ nx.cookies = <<>>
                 /\ (attached /\ ~leaves) => nx.session.fresh /\ nx.pc = "mw_update"
                 /\ (~attached /\ leaves)
                       => Len(nx.cookies) >= 1 /\ nx.cookies[1] = BlankCookie
                 /\ (~attached /\ ~leaves) => nx.pc = "mw_delete"
        /\ rq.pc = "mw_delete"
              => /\ leaves
                 /\ nx.user = NullUser /\ nx.session = NullSession
                 /\ Len(nx.cookies) >= 1 /\ nx.cookies[1] = BlankCookie
                 /\ SessionRowsById(rq.cookie)' = {}
        /\ rq.pc = "mw_update"
              => /\ leaves
                 /\ nx.user = rq.user /\ nx.session = rq.session
                 /\ nx.session.fresh /\ nx.session.id = rq.cookie
                 /\ Len(nx.cookies) >= 1
                 /\ nx.cookies[1] = SessionCookie(nx.session.id)

\* C15: for a request carrying a session cookie the middleware attaches a
\* non-null user and session only if (and whenever), at the time
\* validateSession reads, the session row exists, has not expired and its
\* user_id references an existing user; a fresh session gets a Set-Cookie
\* for its id; with no valid session (absent, expired, invalidated) user
\* and session are null and the blank cookie is emitted.
C15_MiddlewareAttachesValidSessions ==
    [][\A r \in Requests :
          (req[r].pc \in {"mw_read", "mw_delete", "mw_update"} /\ Stepped(r))
             => C15_MiddlewareStep(r)]_vars

\* One request was given a fresh session and its cookie, and logged out;
\* a later request with the same cookie got null and the blank cookie.
C15_Witness ==
    \E r, q \in Requests :
        /\ r < q
        /\ req[r].pc = "done" /\ req[r].cookie # 0
        /\ req[r].session = [id |-> req[r].cookie, fresh |-> TRUE]
        /\ req[r].user.id # 0
        /\ req[r].cookies[1] = SessionCookie(req[r].cookie)
        /\ req[q].pc = "done" /\ req[q].cookie = req[r].cookie
        /\ req[q].session = NullSession /\ req[q].user = NullUser
        /\ req[q].cookies[1] = BlankCookie

---------------------------------------------------------------------------
\* The user of a request has the flag set.
FlagSet(r) ==
    \A u \in UserRowsById(req[r].user.id) : ToBoolean(u.email_verified)

\* C16: on a successful email verification the flag is set first, then the
\* sessions are invalidated, then the new session is created: no state is
\* reachable in which the request has already invalidated the user's
\* sessions while email_verified is still false.
C16_FlagBeforeInvalidation ==
    \A r \in VerifyRequests : req[r].pc = "ev_update" => FlagSet(r)

\* What a step of the email-verification handler must do.
C16_VerifyStep(r) ==
    LET rq == req[r]
    IN  /\ rq.pc = "ev_invalidate"
              => /\ sessions' = sessions \ SessionRowsOfUser(rq.user.id)
                 /\ users' = users
                 /\ req'[r].pc = "ev_update"
        /\ rq.pc = "ev_update"
              => /\ \A sid \in rq.preSessions :
                       \A x \in SessionRowsById(sid) : x.user_id # rq.user.id
                 /\ sessions' = sessions
                 /\ FlagSet(r)'
                 /\ \A u \in users' : u.id # rq.user.id => u \in users
                 /\ req'[r].pc = "ev_session"
        /\ rq.pc = "ev_session"
              => /\ FlagSet(r)
                 /\ users' = users
                 /\ SessionRowsById(FreshId(r)) = {}
                 /\ sessions' = sessions \cup {NewSessionRow(FreshId(r), rq.user.id)}
                 /\ req'[r].pc = "done" /\ req'[r].status = 302

\* C16, amended: the storage effects of an email verification happen in
\* this order: first all sessions of the user are invalidated, then the
\* flag is set, then the new session is created.  The flag is set only
\* when the sessions the user had at the request's arrival are gone, and
\* the new session is created only when the flag is set.
C16_InvalidateThenFlagThenSession ==
    [][\A r \in Requests :
          (req[r].route = "verify" /\ req'[r].pc # req[r].pc
             /\ req[r].pc \in {"ev_invalidate", "ev_update", "ev_session"})
          => C16_VerifyStep(r)]_vars

\* A verification has gone through its three statements: the session it
\* came with is gone, the flag is set and the new session is there.
C16_Witness ==
    \E r \in VerifyRequests :
        /\ req[r].pc = "done" /\ req[r].status = 302
        /\ SessionRowsById(req[r].cookie) = {}
        /\ UserRowsById(req[r].user.id) # {} /\ FlagSet(r)
        /\ SessionRowsById(req[r].newSession) # {}

---------------------------------------------------------------------------
\* The requests whose step this is.
Steppers == {r \in Requests : req'[r].pc # req[r].pc}

\* C17: user rows are stable.  No step deletes a user row or changes its
\* id, email or hashed_password, and email_verified never goes from true
\* back to false; a row is added only by the insert of a signup; the only
\* change of an existing row is the UPDATE of the email-verification
\* handler setting email_verified of the request's user to true, which
\* changes nothing when the flag is already set.
C17_UserRowsStable ==
    [][/\ \A u \in users :
             \E v \in users' :
                /\ v.id = u.id /\ v.email = u.email
                /\ v.hashed_password = u.hashed_password
                /\ ToBoolean(u.email_verified) => v = u
       /\ Cardinality(users') >= Cardinality(users)
       /\ (\E v \in users' : v.id \notin {u.id : u \in users})
             => \E r \in Steppers :
                   /\ req[r].route = "signup" /\ req[r].pc = "su_insert"
                   /\ users' = users \cup
                         {[id |-> FreshId(r), email |-> req[r].form.email,
                           hashed_password |-> hashPassword(req[r].form.password),
                           email_verified |-> 0]}
       /\ (\E u \in users : u \notin users')
             => \E r \in Steppers :
                   /\ req[r].route = "verify" /\ req[r].pc = "ev_update"
                   /\ \A u \in users \ users' :
                         /\ u.id = req[r].user.id
                         /\ [u EXCEPT !.email_verified = 1] \in users'
       /\ \A r \in Steppers :
             (req[r].pc = "ev_update" /\ FlagSet(r)) => users' = users]_vars

\* A user was verified by one request and the UPDATE ran a second time, for
\* the same user, in another request.
C17_Witness ==
    \E r1, r2 \in VerifyRequests :
        /\ r1 # r2
        /\ req[r1].user.id = req[r2].user.id
        /\ req[r1].pc = "done" /\ req[r1].status = 302
        /\ req[r2].pc = "done" /\ req[r2].status = 302
        /\ UserRowsById(req[r1].user.id) # {} /\ FlagSet(r1)

---------------------------------------------------------------------------
\* C18: referential integrity.  Every session row's user_id and every
\* verification-code row's user_id is the id of an existing user row, and
\* every verification-code row's email is the email of that user.
C18_ReferentialIntegrity ==
    /\ \A s \in sessions : UserRowsById(s.user_id) # {}
    /\ \A c \in codes :
          /\ UserRowsById(c.user_id) # {}
          /\ \A u \in UserRowsById(c.user_id) : u.email = c.email

\* Sessions created by a signup, by a login and by an email verification
\* exist next to the user's code row.
C18_Witness ==
    \E r1 \in SignupRequests, r2 \in LoginRequests, r3 \in VerifyRequests :
        /\ req[r2].target = req[r1].target /\ req[r3].user.id = req[r1].target
        /\ SessionRowsById(req[r2].newSession) # {}
        /\ SessionRowsById(req[r3].newSession) # {}
        /\ CodeRowsOfUser(req[r1].target) # {}
        /\ UserRowsById(req[r1].target) # {}

---------------------------------------------------------------------------
\* The signups with a valid form that were answered with the failure.
FailedSignups ==
    {r \in SignupRequests :
        ValidCredentials(req[r].form) /\ req[r].pc = "done" /\ req[r].status = 400}

\* C19: signup is all-or-nothing with respect to storage failures.  If a
\* signup ends with the failure response (a storage error while inserting
\* the user, issuing the code or creating the session), no user row for the
\* submitted email has been added by that request.
C19_SignupAllOrNothing ==
    \A r \in FailedSignups : UserRowsById(FreshId(r)) = {}

\* C19, amended: a failed signup has created no session and no cookie.  It
\* has added no user row and no code row when it failed at the user insert;
\* when it failed later (issuing the code or creating the session) its user
\* row stays, with the code row if that was inserted, and the email is
\* taken: every other signup with that email fails at its insert.
C19_FailedSignupKeepsEarlierRows ==
    \A r \in FailedSignups :
        /\ req[r].newSession = 0 /\ req[r].cookies = <<>>
        /\ SessionRowsOfUser(FreshId(r)) = {}
        /\ req[r].target = 0
              => UserRowsById(FreshId(r)) = {} /\ CodeRowsOfUser(FreshId(r)) = {}
        /\ req[r].target # 0
              => /\ \E u \in UserRowsById(FreshId(r)) : u.email = req[r].form.email
                 /\ req[r].mail = "none" <=> CodeRowsOfUser(FreshId(r)) = {}
                 /\ \A q \in SignupsOf(req[r].form.email) \ {r} :
                       /\ UserRowsById(FreshId(q)) = {}
                       /\ req[q].pc = "done" => req[q].status = 400

\* A signup failed while creating its session, its user row and code row
\* are still there, and a later signup with the same email was refused.
C19_Witness ==
    \E r, q \in FailedSignups :
        /\ r < q
        /\ req[q].form.email = req[r].form.email
        /\ req[r].target # 0 /\ req[q].target = 0
        /\ UserRowsById(FreshId(r)) # {}
        /\ CodeRowsOfUser(FreshId(r)) # {}
====
